---- MODULE Spec2Model ----
(***************************************************************************)
(* GPTiny (src/train.ipynb): character vocabulary, batch sampler, causal   *)
(* attention head, LanguageModel.forward / generate, Block construction    *)
(* and the training loop, as state machines.                               *)
(*                                                                         *)
(* Python lists, strings and tensors are 1-indexed TLA+ sequences here;    *)
(* Python offsets and token ids stay 0-based, as in the source.            *)
(* A character is its code point.                                          *)
(***************************************************************************)
EXTENDS Integers, Sequences, FiniteSets, TLC

VARIABLES
    \* corpora and vocabulary (cells "Load data", "Generate vocabulary", "Tokenise")
    train_df, dev_df, test_df,
    used_chars, vocab_size, char_to_int, int_to_char,
    train_encoded, dev_encoded, test_encoded,
    dec_in, dec_out, vpc,
    \* hyperparameters read by get_batch, and one get_batch call
    block_size, batch_size,
    gb_split, gb_ix, gb_x, gb_y, gb_pc,
    \* the model's train/eval mode flag (nn.Module.training)
    training,
    \* one call of Head.forward on a window of T positions
    head_T, head_x, head_w, wei, head_row, head_pc,
    \* Block(n_embd, n_head, block_size), one Block.forward, and LanguageModel()
    blk_n_embd, blk_n_head, blk, blk_x, blk_out, blk_pc, lm_pc,
    \* a LanguageModel instance and one call of its forward
    lm, fw_idx, fw_targets, fw_out, fw_pc,
    \* one call of LanguageModel.generate
    gen_seed, gen_max_new, gen_idx, gen_window, gen_iters, gen_pc,
    \* the training loop: the log rows written, and how often estimate_loss was
    \* called, ran model.eval() and ran model.train()
    max_iters, eval_interval, iter, loss_log, est_calls, est_evals, est_trains,
    tr_pc,
    \* one run of estimate_loss's body: its mode argument, eval_iters, the splits
    \* still to estimate, the batches done of the current one, and the modes its
    \* forward passes ran in
    est_mode, eval_iters, est_splits, est_k, est_fw_modes,
    \* the scheduler's total_steps (0 before it is constructed), the number of
    \* scheduler.step() calls, and the statements the current step has executed
    sched_total, sched_steps, step_ops

vocabVars == <<train_df, dev_df, test_df, used_chars, vocab_size, char_to_int,
               int_to_char, train_encoded, dev_encoded, test_encoded,
               dec_in, dec_out, vpc>>
hyperVars == <<block_size, batch_size>>
batchVars == <<gb_split, gb_ix, gb_x, gb_y, gb_pc>>
headVars == <<head_T, head_x, head_w, wei, head_row, head_pc>>
blockVars == <<blk_n_embd, blk_n_head, blk, blk_x, blk_out, blk_pc, lm_pc>>
fwVars == <<fw_idx, fw_targets, fw_out, fw_pc>>
genVars == <<gen_seed, gen_max_new, gen_idx, gen_window, gen_iters, gen_pc>>
trainVars == <<max_iters, eval_interval, iter, loss_log, est_calls, est_evals,
               est_trains, tr_pc, est_mode, eval_iters, est_splits, est_k,
               est_fw_modes, sched_total, sched_steps, step_ops>>
vars == <<vocabVars, hyperVars, batchVars, training, headVars, blockVars, lm,
          fwVars, genVars, trainVars>>

\* what the actions of one part leave alone
vocabFrame == <<hyperVars, batchVars, training, headVars, blockVars, lm, fwVars,
                genVars, trainVars>>
batchFrame == <<vocabVars, hyperVars, training, headVars, blockVars, lm, fwVars,
                genVars, trainVars>>
headFrame == <<vocabVars, hyperVars, batchVars, training, blockVars, lm, fwVars,
               genVars, trainVars>>
blockFrame == <<vocabVars, hyperVars, batchVars, training, headVars, fwVars,
                genVars, trainVars>>
fwFrame == <<vocabVars, hyperVars, batchVars, training, headVars, blockVars, lm,
             genVars, trainVars>>
genFrame == <<vocabVars, hyperVars, batchVars, training, headVars, blockVars, lm,
              fwVars, trainVars>>
trainFrame == <<vocabVars, hyperVars, batchVars, headVars, blockVars, lm, fwVars,
                genVars>>
schedVars == <<sched_total, sched_steps, step_ops>>

-----------------------------------------------------------------------------
(* Bounds of the model *)

MaxTrainLen == 2
MaxDevLen == 2
MaxTestLen == 1

\* code points of 'a', 'b', 'c'
Chars == {97, 98, 99}

StringsUpTo(n) == UNION {[1..k -> Chars] : k \in 0..n}

Min(a, b) == IF a < b THEN a ELSE b
Max(a, b) == IF a > b THEN a ELSE b

-----------------------------------------------------------------------------
(* Python values *)

\* a name that is not bound yet (the assignment that binds it has not run,
\* or raised before binding it)
Unbound == [def |-> FALSE, val |-> <<>>]
Bound(v) == [def |-> TRUE, val |-> v]

\* the outcome of a call: a value, or the exception it raised
Returned(v) == [err |-> "none", val |-> v]
Raised(e) == [err |-> e, val |-> <<>>]

-----------------------------------------------------------------------------
(* Vocabulary: sorted(list(set(train_df))), the two dicts, encode, decode *)

\* set(s)
SetOfChars(s) == {s[i] : i \in DOMAIN s}

\* sorted(list(S)): ascending code points
RECURSIVE SortedList(_)
SortedList(S) ==
    IF S = {} THEN <<>>
    ELSE LET m == CHOOSE x \in S : \A y \in S : x <= y
         IN  <<m>> \o SortedList(S \ {m})

\* (mutant of UsedChars: list(train_df), neither deduplicated nor sorted)
UsedCharsRaw(train) == train

\* used_chars = sorted(list(set(train_df))): the training corpus only
UsedChars(train) == SortedList(SetOfChars(train))

\* { ch:i for i,ch in enumerate(used_chars) }: a later duplicate key overwrites
CharToInt(uc) ==
    [ch \in SetOfChars(uc) |->
        (CHOOSE i \in DOMAIN uc : uc[i] = ch /\ \A j \in DOMAIN uc : uc[j] = ch => j <= i) - 1]

\* (mutant of IntToChar: enumerate from 1)
IntToCharFromOne(uc) == [i \in 1..Len(uc) |-> uc[i]]

\* { i:ch for i,ch in enumerate(used_chars) }
IntToChar(uc) == [i \in 0..(Len(uc) - 1) |-> uc[i + 1]]

\* encode = lambda s: [char_to_int[c] for c in s]; a missing key raises KeyError
\* out of the comprehension, so no list is returned
encode(c2i, s) ==
    IF \A k \in DOMAIN s : s[k] \in DOMAIN c2i
    THEN Returned([k \in DOMAIN s |-> c2i[s[k]]])
    ELSE Raised("KeyError")

\* decode = lambda l: ''.join([int_to_char[i] for i in l])
decode(i2c, l) ==
    IF \A k \in DOMAIN l : l[k] \in DOMAIN i2c
    THEN Returned([k \in DOMAIN l |-> i2c[l[k]]])
    ELSE Raised("KeyError")

\* The corpora as read from the three files
VocabInit ==
    /\ train_df \in StringsUpTo(MaxTrainLen)
    /\ dev_df \in StringsUpTo(MaxDevLen)
    /\ test_df \in StringsUpTo(MaxTestLen)
    /\ used_chars = <<>>
    /\ vocab_size = 0
    /\ char_to_int = <<>>
    /\ int_to_char = <<>>
    /\ train_encoded = Unbound
    /\ dev_encoded = Unbound
    /\ test_encoded = Unbound
    /\ dec_in = <<>>
    /\ dec_out = Raised("not called")
    /\ vpc = "loaded"

\* cell "Generate vocabulary"
BuildVocab ==
    /\ vpc = "loaded"
    /\ used_chars' = UsedChars(train_df)
    /\ vocab_size' = Len(used_chars')
    /\ char_to_int' = CharToInt(used_chars')
    /\ int_to_char' = IntToChar(used_chars')
    /\ vpc' = "vocab"
    /\ UNCHANGED <<train_df, dev_df, test_df, train_encoded, dev_encoded,
                   test_encoded, dec_in, dec_out>>
    /\ UNCHANGED vocabFrame

\* train_encoded = torch.tensor(encode(train_df))
EncodeTrain ==
    /\ vpc = "vocab"
    /\ LET r == encode(char_to_int, train_df)
       IN  IF r.err = "none"
           THEN train_encoded' = Bound(r.val) /\ vpc' = "train_encoded"
           ELSE train_encoded' = train_encoded /\ vpc' = r.err
    /\ UNCHANGED <<train_df, dev_df, test_df, used_chars, vocab_size, char_to_int,
                   int_to_char, dev_encoded, test_encoded, dec_in, dec_out>>
    /\ UNCHANGED vocabFrame

\* dev_encoded = torch.tensor(encode(dev_df))
EncodeDev ==
    /\ vpc = "train_encoded"
    /\ LET r == encode(char_to_int, dev_df)
       IN  IF r.err = "none"
           THEN dev_encoded' = Bound(r.val) /\ vpc' = "dev_encoded"
           ELSE dev_encoded' = dev_encoded /\ vpc' = r.err
    /\ UNCHANGED <<train_df, dev_df, test_df, used_chars, vocab_size, char_to_int,
                   int_to_char, train_encoded, test_encoded, dec_in, dec_out>>
    /\ UNCHANGED vocabFrame

\* test_encoded = torch.tensor(encode(test_df))
EncodeTest ==
    /\ vpc = "dev_encoded"
    /\ LET r == encode(char_to_int, test_df)
       IN  IF r.err = "none"
           THEN test_encoded' = Bound(r.val) /\ vpc' = "tokenised"
           ELSE test_encoded' = test_encoded /\ vpc' = r.err
    /\ UNCHANGED <<train_df, dev_df, test_df, used_chars, vocab_size, char_to_int,
                   int_to_char, train_encoded, dev_encoded, dec_in, dec_out>>
    /\ UNCHANGED vocabFrame

\* the id lists decode is applied to: the encoded corpora, and every id pair
\* over 0..vocab_size (vocab_size itself is the first id outside the vocabulary)
DecodeArgs ==
    {t.val : t \in {u \in {train_encoded, dev_encoded, test_encoded} : u.def}}
        \cup UNION {[1..k -> 0..vocab_size] : k \in 1..2}

\* a call decode(l), once the vocabulary cell has run
DecodeCall ==
    /\ vpc \in {"train_encoded", "dev_encoded", "tokenised", "KeyError"}
    /\ dec_out.err = "not called"
    /\ \E l \in DecodeArgs :
        /\ dec_in' = l
        /\ dec_out' = decode(int_to_char, l)
    /\ UNCHANGED <<train_df, dev_df, test_df, used_chars, vocab_size, char_to_int,
                   int_to_char, train_encoded, dev_encoded, test_encoded, vpc>>
    /\ UNCHANGED vocabFrame

VocabNext == BuildVocab \/ EncodeTrain \/ EncodeDev \/ EncodeTest \/ DecodeCall

-----------------------------------------------------------------------------
(* Batch sampler: get_batch(split) *)

MaxDataLen == 4
MaxBlock == 2
MaxBatch == 2

\* data[a:b] for 0 <= a <= b: a slice is clipped to the tensor, it never raises
PySlice(data, a, b) == SubSeq(data, a + 1, Min(b, Len(data)))

\* (mutant of RandintHigh: one start too many)
RandintHighInclusive(n, block) == n - block + 1

\* the exclusive upper end of torch.randint(len(data) - block_size, (batch_size,))
RandintHigh(n, block) == n - block

\* torch.stack(rows): the rows must be tensors of one size
Stackable(rows) == \A i, j \in DOMAIN rows : Len(rows[i]) = Len(rows[j])

\* the tensor the split names
SplitData(split) ==
    CASE split = "train" -> train_encoded
      [] split = "dev" -> dev_encoded
      [] split = "test" -> test_encoded

\* the state after the vocabulary and tokenise cells ran through on corpora
\* made of characters of the training corpus
TokenisedWith(train, dev, test) ==
    /\ train_df = train
    /\ dev_df = dev
    /\ test_df = test
    /\ used_chars = UsedChars(train_df)
    /\ vocab_size = Len(used_chars)
    /\ char_to_int = CharToInt(used_chars)
    /\ int_to_char = IntToChar(used_chars)
    /\ train_encoded = Bound(encode(char_to_int, train_df).val)
    /\ dev_encoded = Bound(encode(char_to_int, dev_df).val)
    /\ test_encoded = Bound(encode(char_to_int, test_df).val)
    /\ dec_in = <<>>
    /\ dec_out = Raised("not called")
    /\ vpc = "tokenised"

TokenisedInit ==
    \E train \in UNION {[1..k -> {97, 98}] : k \in 0..MaxDataLen} :
        \E dev \in UNION {[1..k -> SetOfChars(train)] : k \in 0..MaxDevLen} :
            \E test \in UNION {[1..k -> SetOfChars(train)] : k \in 0..MaxTestLen} :
                TokenisedWith(train, dev, test)

\* training corpora of one, two and three distinct characters
ExampleCorpora == {<<97>>, <<98, 97>>, <<99, 97, 98, 97>>}

ExampleInit == \E train \in ExampleCorpora : TokenisedWith(train, <<>>, <<>>)

\* the two-character training corpus "ba"
OneCorpusInit == TokenisedWith(<<98, 97>>, <<>>, <<>>)

\* the hyperparameter cell: block_size, batch_size
HyperInit ==
    /\ block_size \in 1..MaxBlock
    /\ batch_size \in 1..MaxBatch

BatchIdle ==
    /\ gb_split = "none"
    /\ gb_ix = <<>>
    /\ gb_x = <<>>
    /\ gb_y = <<>>
    /\ gb_pc = "idle"

\* get_batch(split): randint raises when its range is empty; otherwise batch_size
\* starts are drawn, and the rows sliced at them are stacked
GetBatch ==
    /\ gb_pc = "idle"
    /\ \E split \in {"train", "dev", "test"} :
        LET data == SplitData(split).val
            high == RandintHigh(Len(data), block_size)
        IN  /\ gb_split' = split
            /\ IF high <= 0
               THEN /\ gb_pc' = "RuntimeError"
                    /\ UNCHANGED <<gb_ix, gb_x, gb_y>>
               ELSE \E ix \in [1..batch_size -> 0..(high - 1)] :
                    LET xs == [b \in 1..batch_size |->
                                  PySlice(data, ix[b], ix[b] + block_size)]
                        ys == [b \in 1..batch_size |->
                                  PySlice(data, ix[b] + 1, ix[b] + block_size + 1)]
                    IN  /\ gb_ix' = ix
                        /\ IF Stackable(xs) /\ Stackable(ys)
                           THEN gb_x' = xs /\ gb_y' = ys /\ gb_pc' = "returned"
                           ELSE /\ gb_pc' = "RuntimeError"
                                /\ UNCHANGED <<gb_x, gb_y>>
    /\ UNCHANGED batchFrame

\* the caller drops the batch; the next call is independent of this one
BatchDrop ==
    /\ gb_pc = "returned"
    /\ gb_split' = "none"
    /\ gb_ix' = <<>>
    /\ gb_x' = <<>>
    /\ gb_y' = <<>>
    /\ gb_pc' = "idle"
    /\ UNCHANGED batchFrame

BatchNext == GetBatch \/ BatchDrop

-----------------------------------------------------------------------------
(* Head.forward: scores, causal mask, softmax, dropout *)

MaxWindow == 3

\* a score is a finite number or float('-inf')
Finite(v) == [neg_inf |-> FALSE, v |-> v]
NegInf == [neg_inf |-> TRUE, v |-> 0]

\* a weight is the fraction num/den, zero written 0/1; den = 0 is NaN (0/0)
Frac(n, d) ==
    IF d = 0 THEN [num |-> 0, den |-> 0]
    ELSE IF n = 0 THEN [num |-> 0, den |-> 1]
    ELSE [num |-> n, den |-> d]

\* (mutant of Tril: torch.triu, the upper triangle)
Triu(n) == [t \in 1..n |-> [u \in 1..n |-> IF u >= t THEN 1 ELSE 0]]

\* torch.tril(torch.ones(block_size, block_size)): ones on and below the diagonal
Tril(n) == [t \in 1..n |-> [u \in 1..n |-> IF u <= t THEN 1 ELSE 0]]

\* nn.Linear(n_embd, head_size, bias=False) on a window x, for n_embd = head_size
\* = 1: every position times the weight
Linear(w, x) == [t \in DOMAIN x |-> w * x[t]]

\* q @ k.transpose(-2,-1) * C**-0.5, for a head of size 1; the positive factor
\* C**-0.5 is left out, it changes no score's sign or finiteness
Scores(q, k) == [t \in DOMAIN q |-> [u \in DOMAIN k |-> Finite(q[t] * k[u])]]

\* wei.masked_fill(self.tril[:T, :T] == 0, float('-inf'))
MaskedFill(w, tril, T) ==
    [t \in 1..T |-> [u \in 1..T |-> IF tril[t][u] = 0 THEN NegInf ELSE w[t][u]]]

\* exp of a score, to the base 2: exp(-inf) is exactly 0, exp of a finite score
\* is positive
Exp(s) == IF s.neg_inf THEN 0 ELSE 2 ^ s.v

RECURSIVE SumTo(_, _)
SumTo(f, n) == IF n = 0 THEN 0 ELSE f[n] + SumTo(f, n - 1)

\* F.softmax(wei, dim=-1): every row divided by its sum of exponentials
Softmax(w, T) ==
    [t \in 1..T |->
        LET e == [u \in 1..T |-> Exp(w[t][u])]
        IN  [u \in 1..T |-> Frac(e[u], SumTo(e, T))]]

\* nn.Dropout(0.1) on one row: in training mode an element is zeroed where keep
\* is FALSE and scaled by 1/(1-p) = 10/9 where it is TRUE; in evaluation mode
\* the row passes unchanged
DropoutRow(row, keep, train) ==
    IF train
    THEN [u \in DOMAIN row |->
            IF keep[u] THEN Frac(row[u].num * 10, row[u].den * 9)
            ELSE Frac(0, row[u].den)]
    ELSE row

HeadInit ==
    /\ head_T \in 1..block_size
    /\ head_x \in [1..head_T -> 0..1]
    /\ head_w \in [key : 0..1, query : 0..1]
    /\ wei = <<>>
    /\ head_row = 0
    /\ head_pc = "called"

\* k = self.key(x); q = self.query(x); wei = q @ k.transpose(-2,-1) * C**-0.5
HeadScores ==
    /\ head_pc = "called"
    /\ wei' = Scores(Linear(head_w.query, head_x), Linear(head_w.key, head_x))
    /\ head_pc' = "scores"
    /\ UNCHANGED <<head_T, head_x, head_w, head_row>>
    /\ UNCHANGED headFrame

\* wei = wei.masked_fill(self.tril[:T, :T] == 0, float('-inf'))
HeadMask ==
    /\ head_pc = "scores"
    /\ wei' = MaskedFill(wei, Tril(block_size), head_T)
    /\ head_pc' = "masked"
    /\ UNCHANGED <<head_T, head_x, head_w, head_row>>
    /\ UNCHANGED headFrame

\* wei = F.softmax(wei, dim=-1)
HeadSoftmax ==
    /\ head_pc = "masked"
    /\ wei' = Softmax(wei, head_T)
    /\ head_pc' = "softmax"
    /\ head_row' = 1
    /\ UNCHANGED <<head_T, head_x, head_w>>
    /\ UNCHANGED headFrame

\* wei = self.dropout(wei): every element gets its own Bernoulli draw; the rows
\* are drawn one after the other
HeadDropout ==
    /\ head_pc = "softmax"
    /\ \E keep \in [1..head_T -> BOOLEAN] :
        wei' = [wei EXCEPT ![head_row] = DropoutRow(wei[head_row], keep, training)]
    /\ IF head_row = head_T
       THEN head_pc' = "wei" /\ head_row' = 0
       ELSE head_pc' = "softmax" /\ head_row' = head_row + 1
    /\ UNCHANGED <<head_T, head_x, head_w>>
    /\ UNCHANGED headFrame

HeadNext == HeadScores \/ HeadMask \/ HeadSoftmax \/ HeadDropout

-----------------------------------------------------------------------------
(* Block.__init__, Block.forward, LanguageModel.__init__ *)

\* the hyperparameter cell
n_embd == 64
n_head == 16
n_layer == 8

\* the sizes and head counts a Block is constructed with
EmbdSizes == {4, 5, 64, 65}
HeadCounts == {2, 16}

\* Block.__init__(n_embd, n_head, block_size): head_size = n_embd // n_head, then
\* n_head heads of Linear(n_embd, head_size) and proj = Linear(n_embd, n_embd);
\* nothing is checked, the constructor returns for every argument triple
BlockNew(embd, heads, bsize) ==
    [n_embd |-> embd, num_heads |-> heads, head_size |-> embd \div heads,
     block_size |-> bsize]

\* Block.forward on x of shape (B, T, C): LayerNorm(n_embd) and the heads'
\* Linear(n_embd, head_size) need C = n_embd; masked_fill needs the (T, T) scores
\* to match tril[:T, :T], so T <= block_size; torch.cat of the heads has
\* num_heads * head_size features and proj = Linear(n_embd, n_embd) takes n_embd
BlockForward(b, shape) ==
    IF shape[3] # b.n_embd THEN Raised("RuntimeError")
    ELSE IF shape[2] > b.block_size THEN Raised("RuntimeError")
    ELSE IF b.num_heads * b.head_size # b.n_embd THEN Raised("RuntimeError")
    ELSE Returned(shape)

\* the parameters of Block.__init__ that have no default
BlockInitRequired == {"n_embd", "n_head", "block_size"}

\* the arguments of the call Block(n_embd, n_head=n_head) in LanguageModel.__init__
BlockCallArgs == {"n_embd", "n_head"}

\* a Python call binds iff every parameter without a default gets an argument
CallBinds(required, given) == required \subseteq given

\* the fields LanguageModel.__init__ assigns: the embedding tables' sizes and
\* n_layer blocks
LmInstance(V, bsize) ==
    [vocab_size |-> V, block_size |-> bsize, n_embd |-> n_embd,
     blocks |-> [l \in 1..n_layer |-> BlockNew(n_embd, n_head, bsize)]]

\* LanguageModel(): the first Block(n_embd, n_head=n_head) raises TypeError, as
\* block_size is missing
LanguageModelNew(V, bsize) ==
    IF n_layer > 0 /\ ~CallBinds(BlockInitRequired, BlockCallArgs)
    THEN Raised("TypeError")
    ELSE Returned(LmInstance(V, bsize))

BlockInit ==
    /\ blk_n_embd \in EmbdSizes
    /\ blk_n_head \in HeadCounts
    /\ blk = Unbound
    /\ blk_x \in {<<B, T, blk_n_embd>> : B \in 1..batch_size, T \in 1..block_size}
    /\ blk_out = Raised("not called")
    /\ blk_pc = "new"
    /\ lm_pc = "new"
    /\ lm = Unbound

\* blk = Block(blk_n_embd, blk_n_head, block_size)
BlockConstruct ==
    /\ blk_pc = "new"
    /\ blk' = Bound(BlockNew(blk_n_embd, blk_n_head, block_size))
    /\ blk_pc' = "constructed"
    /\ UNCHANGED <<blk_n_embd, blk_n_head, blk_x, blk_out, lm_pc, lm>>
    /\ UNCHANGED blockFrame

\* the first forward pass of the constructed block: blk(x)
BlockForwardCall ==
    /\ blk_pc = "constructed"
    /\ blk_out' = BlockForward(blk.val, blk_x)
    /\ blk_pc' = IF blk_out'.err = "none" THEN "forwarded" ELSE blk_out'.err
    /\ UNCHANGED <<blk_n_embd, blk_n_head, blk, blk_x, lm_pc, lm>>
    /\ UNCHANGED blockFrame

\* model = LanguageModel()
LanguageModelConstruct ==
    /\ lm_pc = "new"
    /\ LET r == LanguageModelNew(vocab_size, block_size)
       IN  IF r.err = "none"
           THEN lm' = Bound(r.val) /\ lm_pc' = "constructed"
           ELSE lm' = lm /\ lm_pc' = r.err
    /\ UNCHANGED <<blk_n_embd, blk_n_head, blk, blk_x, blk_out, blk_pc>>
    /\ UNCHANGED blockFrame

BlockNext == BlockConstruct \/ BlockForwardCall \/ LanguageModelConstruct

-----------------------------------------------------------------------------
(* LanguageModel.forward *)

\* token ids of the windows handed to forward
TokenIds == {0, 1}

\* B windows of T tokens of a vocabulary of V
Matrices(B, T, V) == [1..B -> [1..T -> TokenIds \cap 0..(V - 1)]]

\* self.blocks(x): nn.Sequential hands the shape through the blocks in order
RECURSIVE BlocksForward(_, _, _)
BlocksForward(blocks, l, shape) ==
    IF l > Len(blocks) THEN Returned(shape)
    ELSE LET r == BlockForward(blocks[l], shape)
         IN  IF r.err = "none" THEN BlocksForward(blocks, l + 1, r.val) ELSE r

\* (mutant of FlattenLogits: the logits are returned as they were)
FlattenLogitsNot(shape) == shape

\* logits.view(B*T, C)
FlattenLogits(shape) == <<shape[1] * shape[2], shape[3]>>

\* forward(idx, targets): the shape of the logits and the kind of the loss it
\* returns, or the exception it raises. An embedding lookup raises IndexError on
\* an index outside its table (a token id >= vocab_size, a position >= block_size)
Forward(m, idx, targets) ==
    LET B == Len(idx)
        T == Len(idx[1])
    IN  IF \E b \in 1..B, t \in 1..T : idx[b][t] \notin 0..(m.vocab_size - 1)
        THEN Raised("IndexError")
        ELSE IF T > m.block_size THEN Raised("IndexError")
        ELSE LET x == BlocksForward(m.blocks, 1, <<B, T, m.n_embd>>)
             IN  IF x.err # "none" THEN x
                 ELSE LET logits == <<x.val[1], x.val[2], m.vocab_size>>
                      IN  IF ~targets.def
                          THEN Returned([logits |-> logits, loss |-> "None"])
                          ELSE IF Len(targets.val) * Len(targets.val[1]) # B * T
                          THEN Raised("RuntimeError")
                          ELSE IF \E b \in DOMAIN targets.val : \E t \in DOMAIN targets.val[b] :
                                    targets.val[b][t] \notin 0..(m.vocab_size - 1)
                          THEN Raised("IndexError")
                          ELSE Returned([logits |-> FlattenLogits(logits),
                                         loss |-> "scalar"])

\* the targets get_batch pairs with a window: the window shifted by one position,
\* closed by one more token per row
ShiftedBy(idx, last) ==
    [b \in DOMAIN idx |->
        [t \in DOMAIN idx[b] |-> IF t < Len(idx[b]) THEN idx[b][t + 1] ELSE last[b]]]

ForwardInit ==
    /\ lm = Bound(LmInstance(vocab_size, block_size))
    /\ fw_idx \in UNION {Matrices(B, T, vocab_size) :
                            B \in 1..batch_size, T \in 1..(block_size + 1)}
    /\ fw_targets \in {Unbound} \cup
          {Bound(ShiftedBy(fw_idx, last)) :
              last \in [1..Len(fw_idx) -> TokenIds \cap 0..(vocab_size - 1)]}
    /\ fw_out = Raised("not called")
    /\ fw_pc = "called"

ForwardIdle ==
    /\ fw_idx = <<>>
    /\ fw_targets = Unbound
    /\ fw_out = Raised("not called")
    /\ fw_pc = "idle"

\* logits, loss = model(idx, targets)
ForwardCall ==
    /\ fw_pc = "called"
    /\ fw_out' = Forward(lm.val, fw_idx, fw_targets)
    /\ fw_pc' = IF fw_out'.err = "none" THEN "returned" ELSE fw_out'.err
    /\ UNCHANGED <<fw_idx, fw_targets>>
    /\ UNCHANGED fwFrame

ForwardNext == ForwardCall

-----------------------------------------------------------------------------
(* LanguageModel.generate *)

MaxGenBatch == 1
MaxSeed == 2
MaxNew == 2

\* (mutant of LastTokens: the running sequence is not cropped)
LastTokensAll(row, n) == row

\* idx[:, -block_size:] on one row: the last n tokens, the whole row if it is
\* not longer
LastTokens(row, n) == SubSeq(row, Max(1, Len(row) - n + 1), Len(row))

GenerateInit ==
    /\ lm = Bound(LmInstance(vocab_size, block_size))
    /\ gen_seed \in UNION {Matrices(B, T, vocab_size) :
                             B \in 1..MaxGenBatch, T \in 1..MaxSeed}
    /\ gen_max_new \in 0..MaxNew
    /\ gen_idx = gen_seed
    /\ gen_window = <<>>
    /\ gen_iters = 0
    /\ gen_pc = "loop"

GenerateIdle ==
    /\ gen_seed = <<>>
    /\ gen_max_new = 0
    /\ gen_idx = <<>>
    /\ gen_window = <<>>
    /\ gen_iters = 0
    /\ gen_pc = "idle"

\* one iteration of for _ in range(max_new_tokens): crop, forward without
\* targets, softmax of the last position's logits, one multinomial draw per row
\* (an index into the logits' last axis), append
GenerateStep ==
    /\ gen_pc = "loop"
    /\ gen_iters < gen_max_new
    /\ LET idx_cond == [b \in DOMAIN gen_idx |-> LastTokens(gen_idx[b], block_size)]
           r == Forward(lm.val, idx_cond, Unbound)
       IN  /\ gen_window' = idx_cond
           /\ IF r.err # "none"
              THEN gen_pc' = r.err /\ UNCHANGED <<gen_idx, gen_iters>>
              ELSE \E idx_next \in [DOMAIN gen_idx -> 0..(r.val.logits[3] - 1)] :
                    /\ gen_idx' = [b \in DOMAIN gen_idx |-> Append(gen_idx[b], idx_next[b])]
                    /\ gen_iters' = gen_iters + 1
                    /\ gen_pc' = "loop"
    /\ UNCHANGED <<gen_seed, gen_max_new>>
    /\ UNCHANGED genFrame

\* return idx
GenerateReturn ==
    /\ gen_pc = "loop"
    /\ gen_iters >= gen_max_new
    /\ gen_pc' = "returned"
    /\ UNCHANGED <<gen_seed, gen_max_new, gen_idx, gen_window, gen_iters>>
    /\ UNCHANGED genFrame

GenerateNext == GenerateStep \/ GenerateReturn

-----------------------------------------------------------------------------
(* The training loop: for iter in range(max_iters) *)

MaxIters == 7
MaxInterval == 5

\* def estimate_loss(mode: str, model: nn.Module): no parameter has a default
EstimateLossRequired == {"mode", "model"}

\* the call estimate_loss("train") in the loop binds mode only
EstimateLossCallArgs == {"mode"}

\* the loop's evaluation condition
EvalDue(i, n, interval) == i % interval = 0 \/ i = n - 1

\* the body of estimate_loss has not been entered
EstimateIdle ==
    /\ est_mode = "none"
    /\ eval_iters = 1
    /\ est_splits = <<>>
    /\ est_k = 0
    /\ est_fw_modes = {}

\* no scheduler has been constructed and no step has begun
SchedulerIdle ==
    /\ sched_total = 0
    /\ sched_steps = 0
    /\ step_ops = <<>>

\* the training cell with model bound to an instance in training mode, before
\* its optimizer and scheduler are created (as the cell is written,
\* model = LanguageModel() raises: LanguageModelNew)
TrainInit ==
    /\ lm = Bound(LmInstance(vocab_size, block_size))
    /\ training = TRUE
    /\ max_iters \in 0..MaxIters
    /\ eval_interval \in 1..MaxInterval
    /\ iter = 0
    /\ loss_log = <<>>
    /\ est_calls = 0
    /\ est_evals = 0
    /\ est_trains = 0
    /\ tr_pc = "OneCycleLR"
    /\ EstimateIdle
    /\ SchedulerIdle

TrainIdle ==
    /\ max_iters = 0
    /\ eval_interval = 1
    /\ iter = 0
    /\ loss_log = <<>>
    /\ est_calls = 0
    /\ est_evals = 0
    /\ est_trains = 0
    /\ tr_pc = "idle"
    /\ EstimateIdle
    /\ SchedulerIdle

\* OneCycleLR(optimizer, max_lr, steps_per_epoch=..., epochs=...): total_steps is
\* epochs * steps_per_epoch, and either of them not positive is a ValueError
OneCycleLR(epochs, steps_per_epoch) ==
    IF epochs <= 0 \/ steps_per_epoch <= 0
    THEN Raised("ValueError")
    ELSE Returned(epochs * steps_per_epoch)

\* optimizer = AdamW(...); scheduler = OneCycleLR(optimizer, max_lr=learning_rate,
\*     steps_per_epoch=len(train_encoded) // batch_size, epochs=max_iters)
CreateScheduler ==
    /\ tr_pc = "OneCycleLR"
    /\ LET r == OneCycleLR(max_iters, Len(train_encoded.val) \div batch_size)
       IN  IF r.err = "none"
           THEN sched_total' = r.val /\ tr_pc' = "for"
           ELSE sched_total' = sched_total /\ tr_pc' = r.err
    /\ UNCHANGED <<max_iters, eval_interval, iter, loss_log, est_calls, est_evals,
                   est_trains, training, sched_steps, step_ops>>
    /\ UNCHANGED <<est_mode, eval_iters, est_splits, est_k, est_fw_modes>>
    /\ UNCHANGED trainFrame

\* for iter in range(max_iters): the next index, or the end of the loop
ForNext ==
    /\ tr_pc = "for"
    /\ tr_pc' = IF iter < max_iters THEN "if" ELSE "done"
    /\ UNCHANGED <<max_iters, eval_interval, iter, loss_log, est_calls, est_evals,
                   est_trains, training>>
    /\ UNCHANGED <<est_mode, eval_iters, est_splits, est_k, est_fw_modes>>
    /\ UNCHANGED schedVars
    /\ UNCHANGED trainFrame

\* if iter % eval_interval == 0 or iter == max_iters - 1:
\*     losses = estimate_loss("train")
\* The call raises TypeError before estimate_loss's body runs (model is not
\* passed): nothing is switched, estimated or written, and the cell ends.
EvalBranch ==
    /\ tr_pc = "if"
    /\ IF EvalDue(iter, max_iters, eval_interval)
       THEN /\ est_calls' = est_calls + 1
            /\ tr_pc' = IF CallBinds(EstimateLossRequired, EstimateLossCallArgs)
                        THEN "estimate_loss" ELSE "TypeError"
       ELSE /\ est_calls' = est_calls
            /\ tr_pc' = "step"
    /\ UNCHANGED <<max_iters, eval_interval, iter, loss_log, est_evals, est_trains,
                   training>>
    /\ UNCHANGED <<est_mode, eval_iters, est_splits, est_k, est_fw_modes>>
    /\ UNCHANGED schedVars
    /\ UNCHANGED trainFrame

TrainNext == CreateScheduler \/ ForNext \/ EvalBranch

-----------------------------------------------------------------------------
(* The step body of the loop, lines 552-562 *)

\* the statements of one step, in the order of the source
StepOrder ==
    <<"get_batch", "forward", "zero_grad", "backward", "optimizer.step",
      "scheduler.step">>

\* one statement of the step body that only moves on to the next
StepStmt(at, op, next) ==
    /\ tr_pc = at
    /\ step_ops' = Append(step_ops, op)
    /\ tr_pc' = next
    /\ UNCHANGED <<max_iters, eval_interval, iter, loss_log, est_calls, est_evals,
                   est_trains, training, sched_total, sched_steps>>
    /\ UNCHANGED <<est_mode, eval_iters, est_splits, est_k, est_fw_modes>>
    /\ UNCHANGED trainFrame

\* xb, yb = get_batch('train'), which raises on a training sequence not longer
\* than block_size. Of the batch only whether it could be drawn is kept.
StepGetBatch ==
    /\ tr_pc = "step"
    /\ IF RandintHigh(Len(train_encoded.val), block_size) <= 0
       THEN step_ops' = <<>> /\ tr_pc' = "RuntimeError"
       ELSE step_ops' = <<"get_batch">> /\ tr_pc' = "forward"
    /\ UNCHANGED <<max_iters, eval_interval, iter, loss_log, est_calls, est_evals,
                   est_trains, training, sched_total, sched_steps>>
    /\ UNCHANGED <<est_mode, eval_iters, est_splits, est_k, est_fw_modes>>
    /\ UNCHANGED trainFrame

\* logits, loss = model(xb, yb)
StepForward == StepStmt("forward", "forward", "zero_grad")

\* optimizer.zero_grad()
StepZeroGrad == StepStmt("zero_grad", "zero_grad", "backward")

\* loss.backward()
StepBackward == StepStmt("backward", "backward", "optimizer.step")

\* optimizer.step()
StepOptimizer == StepStmt("optimizer.step", "optimizer.step", "scheduler.step")

\* scheduler.step(), which raises ValueError once it is called more than
\* total_steps times; then the loop takes its next index
StepScheduler ==
    /\ tr_pc = "scheduler.step"
    /\ sched_steps' = sched_steps + 1
    /\ IF sched_steps + 1 > sched_total
       THEN /\ tr_pc' = "ValueError"
            /\ UNCHANGED <<step_ops, iter>>
       ELSE /\ step_ops' = Append(step_ops, "scheduler.step")
            /\ iter' = iter + 1
            /\ tr_pc' = "for"
    /\ UNCHANGED <<max_iters, eval_interval, loss_log, est_calls, est_evals,
                   est_trains, training, sched_total>>
    /\ UNCHANGED <<est_mode, eval_iters, est_splits, est_k, est_fw_modes>>
    /\ UNCHANGED trainFrame

\* the loop at the step of an iteration at which no evaluation is due, the
\* scheduler having been stepped once per earlier iteration. In the cell as
\* written the loop ends in iteration 0 (EvalBranch), before any step.
StepInit ==
    /\ lm = Bound(LmInstance(vocab_size, block_size))
    /\ training = TRUE
    /\ max_iters \in 1..MaxIters
    /\ eval_interval \in 1..MaxInterval
    /\ iter \in 0..(max_iters - 1)
    /\ ~EvalDue(iter, max_iters, eval_interval)
    /\ loss_log = <<>>
    /\ est_calls = 0
    /\ est_evals = 0
    /\ est_trains = 0
    /\ tr_pc = "step"
    /\ EstimateIdle
    /\ OneCycleLR(max_iters, Len(train_encoded.val) \div batch_size).err = "none"
    /\ sched_total = OneCycleLR(max_iters, Len(train_encoded.val) \div batch_size).val
    /\ sched_steps = iter
    /\ step_ops = <<>>

StepNext ==
    \/ ForNext \/ EvalBranch \/ StepGetBatch \/ StepForward \/ StepZeroGrad
    \/ StepBackward \/ StepOptimizer \/ StepScheduler

-----------------------------------------------------------------------------
(* estimate_loss(mode, model), called with both arguments *)

MaxEvalIters == 2

\* splits = ['train', 'dev'] for mode "train", ['test'] for mode "test"
SplitsOf(mode) ==
    IF mode = "train" THEN <<"train", "dev">>
    ELSE IF mode = "test" THEN <<"test">>
    ELSE <<>>

\* a call estimate_loss(mode, model) that has bound its arguments
EstimateInit ==
    /\ lm = Bound(LmInstance(vocab_size, block_size))
    /\ training \in BOOLEAN
    /\ max_iters = 0
    /\ eval_interval = 1
    /\ iter = 0
    /\ loss_log = <<>>
    /\ est_calls = 1
    /\ est_evals = 0
    /\ est_trains = 0
    /\ tr_pc = "estimate_loss"
    /\ est_mode \in {"train", "test"}
    /\ eval_iters \in 1..MaxEvalIters
    /\ est_splits = <<>>
    /\ est_k = 0
    /\ est_fw_modes = {}
    /\ SchedulerIdle

\* out = {}; splits = []; model.eval(); the splits of the mode
EstimateEnter ==
    /\ tr_pc = "estimate_loss"
    /\ training' = FALSE
    /\ est_evals' = est_evals + 1
    /\ est_splits' = SplitsOf(est_mode)
    /\ est_k' = 0
    /\ tr_pc' = "splits"
    /\ UNCHANGED <<max_iters, eval_interval, iter, loss_log, est_calls, est_trains,
                   est_mode, eval_iters, est_fw_modes>>
    /\ UNCHANGED schedVars
    /\ UNCHANGED trainFrame

\* one k of for k in range(eval_iters): X, Y = get_batch(split), which raises on
\* a split not longer than block_size; logits, loss = model(X, Y) in the mode the
\* model is in. Of the batch only whether it could be drawn is kept.
EstimateBatch ==
    /\ tr_pc = "splits"
    /\ est_splits # <<>>
    /\ est_k < eval_iters
    /\ IF RandintHigh(Len(SplitData(Head(est_splits)).val), block_size) <= 0
       THEN /\ tr_pc' = "RuntimeError"
            /\ UNCHANGED <<est_k, est_fw_modes>>
       ELSE /\ est_k' = est_k + 1
            /\ est_fw_modes' = est_fw_modes \cup {training}
            /\ tr_pc' = "splits"
    /\ UNCHANGED <<max_iters, eval_interval, iter, loss_log, est_calls, est_evals,
                   est_trains, est_mode, eval_iters, est_splits, training>>
    /\ UNCHANGED schedVars
    /\ UNCHANGED trainFrame

\* out[split] = losses.mean(); the next split
EstimateSplitDone ==
    /\ tr_pc = "splits"
    /\ est_splits # <<>>
    /\ est_k >= eval_iters
    /\ est_splits' = Tail(est_splits)
    /\ est_k' = 0
    /\ UNCHANGED <<max_iters, eval_interval, iter, loss_log, est_calls, est_evals,
                   est_trains, est_mode, eval_iters, est_fw_modes, training, tr_pc>>
    /\ UNCHANGED schedVars
    /\ UNCHANGED trainFrame

\* model.train(); return out
EstimateReturn ==
    /\ tr_pc = "splits"
    /\ est_splits = <<>>
    /\ training' = TRUE
    /\ est_trains' = est_trains + 1
    /\ tr_pc' = "estimated"
    /\ UNCHANGED <<max_iters, eval_interval, iter, loss_log, est_calls, est_evals,
                   est_mode, eval_iters, est_splits, est_k, est_fw_modes>>
    /\ UNCHANGED schedVars
    /\ UNCHANGED trainFrame

EstimateNext == EstimateEnter \/ EstimateBatch \/ EstimateSplitDone \/ EstimateReturn

-----------------------------------------------------------------------------
(* Placeholders of the parts a specification does not exercise *)

HyperIdle == block_size = 1 /\ batch_size = 1

VocabIdle ==
    /\ train_df = <<>>
    /\ dev_df = <<>>
    /\ test_df = <<>>
    /\ used_chars = <<>>
    /\ vocab_size = 0
    /\ char_to_int = <<>>
    /\ int_to_char = <<>>
    /\ train_encoded = Unbound
    /\ dev_encoded = Unbound
    /\ test_encoded = Unbound
    /\ dec_in = <<>>
    /\ dec_out = Raised("not called")
    /\ vpc = "idle"

HeadIdle ==
    /\ head_T = 0
    /\ head_x = <<>>
    /\ head_w = [key |-> 0, query |-> 0]
    /\ wei = <<>>
    /\ head_row = 0
    /\ head_pc = "idle"

BlockIdle ==
    /\ blk_n_embd = n_embd
    /\ blk_n_head = n_head
    /\ blk = Unbound
    /\ blk_x = <<>>
    /\ blk_out = Raised("not called")
    /\ blk_pc = "idle"
    /\ lm_pc = "idle"

-----------------------------------------------------------------------------
(* Specifications *)

InitVocab ==
    /\ VocabInit /\ HyperIdle /\ BatchIdle /\ training = TRUE /\ HeadIdle
    /\ BlockIdle /\ lm = Unbound /\ ForwardIdle /\ GenerateIdle /\ TrainIdle

SpecVocab == InitVocab /\ [][VocabNext]_vars

InitBatch ==
    /\ TokenisedInit /\ HyperInit /\ BatchIdle /\ training = TRUE /\ HeadIdle
    /\ BlockIdle /\ lm = Unbound /\ ForwardIdle /\ GenerateIdle /\ TrainIdle

SpecBatch == InitBatch /\ [][BatchNext]_vars

InitHead ==
    /\ OneCorpusInit /\ block_size = MaxWindow /\ batch_size = 1 /\ BatchIdle
    /\ training \in BOOLEAN /\ HeadInit
    /\ BlockIdle /\ lm = Unbound /\ ForwardIdle /\ GenerateIdle /\ TrainIdle

SpecHead == InitHead /\ [][HeadNext]_vars

InitBlock ==
    /\ OneCorpusInit /\ HyperInit /\ BatchIdle /\ training = TRUE /\ HeadIdle
    /\ BlockInit /\ ForwardIdle /\ GenerateIdle /\ TrainIdle

SpecBlock == InitBlock /\ [][BlockNext]_vars

InitForward ==
    /\ ExampleInit /\ HyperInit /\ BatchIdle /\ training \in BOOLEAN /\ HeadIdle
    /\ BlockIdle /\ ForwardInit /\ GenerateIdle /\ TrainIdle

SpecForward == InitForward /\ [][ForwardNext]_vars

InitGenerate ==
    /\ OneCorpusInit /\ HyperInit /\ BatchIdle /\ training \in BOOLEAN /\ HeadIdle
    /\ BlockIdle /\ ForwardIdle /\ GenerateInit /\ TrainIdle

SpecGenerate == InitGenerate /\ [][GenerateNext]_vars

InitTrain ==
    /\ ExampleInit /\ HyperInit /\ BatchIdle /\ HeadIdle
    /\ BlockIdle /\ ForwardIdle /\ GenerateIdle /\ TrainInit

SpecTrain == InitTrain /\ [][TrainNext]_vars

InitEstimate ==
    /\ TokenisedInit /\ HyperInit /\ BatchIdle /\ HeadIdle
    /\ BlockIdle /\ ForwardIdle /\ GenerateIdle /\ EstimateInit

SpecEstimate == InitEstimate /\ [][EstimateNext]_vars

InitStep ==
    /\ ExampleInit /\ HyperInit /\ BatchIdle /\ HeadIdle
    /\ BlockIdle /\ ForwardIdle /\ GenerateIdle /\ StepInit

SpecStep == InitStep /\ [][StepNext]_vars

-----------------------------------------------------------------------------
(* The vocabulary claims, under SpecVocab *)

VocabBuilt == vpc # "loaded"
InVocab(s) == SetOfChars(s) \subseteq SetOfChars(train_df)
DecodeCalled == dec_out.err # "not called"

\* C1: for every string s made only of characters of the training corpus,
\* decode(encode(s)) = s: decoding the encoding of a corpus gives the corpus back;
\* and decode is the inverse of encode on in-vocabulary ids: it returns for every
\* list of ids in [0, V), and encoding what it returned gives the ids back.
C1_RoundTrip ==
    /\ \A c \in {<<train_df, train_encoded>>, <<dev_df, dev_encoded>>, <<test_df, test_encoded>>} :
          (DecodeCalled /\ c[2].def /\ dec_in = c[2].val) => dec_out = Returned(c[1])
    /\ (DecodeCalled /\ \A k \in DOMAIN dec_in : dec_in[k] \in 0..(vocab_size - 1))
          => /\ dec_out.err = "none"
             /\ encode(char_to_int, dec_out.val) = Returned(dec_in)
    /\ (VocabBuilt /\ vpc # "vocab") => train_encoded.def
    /\ (vpc \in {"dev_encoded", "tokenised"}) => dev_encoded.def
    /\ (InVocab(dev_df) /\ vpc = "KeyError") => dev_encoded.def

\* C1 witness: a two-character in-vocabulary dev corpus was encoded and decoded back
C1_Witness ==
    /\ dev_df = <<98, 97>>
    /\ train_df = <<98, 97>>
    /\ dev_encoded = Bound(<<1, 0>>)
    /\ dec_in = <<1, 0>>
    /\ dec_out = Returned(dev_df)

\* C2: the vocabulary has as many entries as the training corpus has distinct
\* characters (dev and test are not scanned), and char_to_int is a bijection from
\* those characters onto [0, V) that is increasing in the code point.
C2_VocabBijection ==
    VocabBuilt =>
        /\ vocab_size = Cardinality(SetOfChars(train_df))
        /\ DOMAIN char_to_int = SetOfChars(train_df)
        /\ {char_to_int[c] : c \in DOMAIN char_to_int} = 0..(vocab_size - 1)
        /\ \A c, d \in DOMAIN char_to_int :
              c < d => char_to_int[c] < char_to_int[d]
        /\ DOMAIN int_to_char = 0..(vocab_size - 1)
        /\ \A c \in DOMAIN char_to_int : int_to_char[char_to_int[c]] = c

\* C2 witness: an unsorted training corpus with a repeated character, and a dev
\* corpus holding a character the training corpus lacks
C2_Witness ==
    /\ VocabBuilt
    /\ train_df = <<99, 97>>
    /\ dev_df = <<98, 98>>
    /\ vocab_size = 2
    /\ char_to_int[97] = 0 /\ char_to_int[99] = 1

\* C9: whenever a corpus handed to encode holds a character that never occurred
\* in the training corpus, encode fails with the error UnknownCharacter and binds
\* no partial token sequence.
C9_UnknownCharacter ==
    /\ (vpc \notin {"loaded", "vocab", "train_encoded"} /\ ~InVocab(dev_df))
          => (vpc = "UnknownCharacter" /\ ~dev_encoded.def)
    /\ (vpc \notin {"loaded", "vocab", "train_encoded", "dev_encoded"}
            /\ InVocab(dev_df) /\ ~InVocab(test_df))
          => (vpc = "UnknownCharacter" /\ ~test_encoded.def)

-----------------------------------------------------------------------------
(* The batch sampler claims, under SpecBatch *)

\* C3: every batch the sampler returns comes from a sequence longer than
\* blockSize; each row b has a start i = ix[b] in [0, len - blockSize), the input
\* row is tokens [i, i+blockSize), the target row is tokens [i+1, i+blockSize+1),
\* both rows have exactly blockSize entries, all inside the sequence (0-based
\* positions i..i+blockSize <= len - 1); and the sampler raises nothing once the
\* sequence is longer than blockSize.
C3_BatchWindows ==
    /\ gb_pc = "returned" =>
        LET data == SplitData(gb_split).val
        IN  /\ Len(data) > block_size
            /\ DOMAIN gb_ix = 1..batch_size
            /\ DOMAIN gb_x = 1..batch_size
            /\ DOMAIN gb_y = 1..batch_size
            /\ \A b \in 1..batch_size :
                /\ gb_ix[b] \in 0..(Len(data) - block_size - 1)
                /\ gb_ix[b] + block_size <= Len(data) - 1
                /\ Len(gb_x[b]) = block_size
                /\ Len(gb_y[b]) = block_size
                /\ \A t \in 1..block_size :
                    /\ gb_x[b][t] = data[gb_ix[b] + t]
                    /\ gb_y[b][t] = data[gb_ix[b] + t + 1]
    /\ (gb_pc = "RuntimeError") => Len(SplitData(gb_split).val) <= block_size

\* C3 witness: corpus "aabb", blockSize 2: the batch drawn at start 1, the last
\* start there is, is ([a,b],[b,b])
C3_Witness ==
    /\ train_df = <<97, 97, 98, 98>>
    /\ block_size = 2
    /\ batch_size = 1
    /\ gb_pc = "returned"
    /\ gb_split = "train"
    /\ gb_ix = <<1>>
    /\ gb_x = <<(<<0, 1>>)>>
    /\ gb_y = <<(<<1, 1>>)>>

-----------------------------------------------------------------------------
(* The attention claim, under SpecHead *)

\* the weights exist once softmax has run (before, during and after dropout)
WeightsReady == head_pc \in {"softmax", "wei"}

\* C4: in a head, for every window length T <= blockSize, in training and in
\* evaluation mode, the weight from query position t to every key position u > t
\* is exactly zero (and is a number, not NaN); the weights of row t that are not
\* zero lie at positions <= t; and as softmax leaves them, and in evaluation mode
\* as the head uses them, the weights at positions <= t add up to one.
C4_CausalMask ==
    WeightsReady =>
        /\ head_T <= block_size
        /\ DOMAIN wei = 1..head_T
        /\ \A t \in 1..head_T :
            /\ \A u \in 1..head_T :
                /\ wei[t][u].den # 0
                /\ u > t => wei[t][u].num = 0
            /\ (head_row = 1 \/ ~training) =>
                  /\ \A u \in 1..t : wei[t][u].num > 0 /\ wei[t][u].den = wei[t][1].den
                  /\ SumTo([u \in 1..t |-> wei[t][u].num], t) = wei[t][1].den

\* C4 witness: a window of three positions in training mode, after dropout: the
\* first row keeps its weight on position 1 only, the last row weighs all three
C4_Witness ==
    /\ head_pc = "wei"
    /\ training
    /\ head_T = 3
    /\ wei[1][1].num # 0 /\ wei[1][2].num = 0 /\ wei[1][3].num = 0
    /\ \A u \in 1..3 : wei[3][u].num # 0

-----------------------------------------------------------------------------
(* The LanguageModel claims, under SpecForward and SpecGenerate *)

ForwardOver == fw_pc \notin {"idle", "called"}
FwB == Len(fw_idx)
FwT == Len(fw_idx[1])

\* C5 (as claimed): forward on token indices of shape (B, T) with T <= blockSize
\* returns logits of shape (B, T, vocabSize), whether or not targets are supplied;
\* the loss is None exactly when targets are not supplied and a scalar otherwise.
C5_LogitsShapeAlways ==
    (ForwardOver /\ FwT <= block_size) =>
        /\ fw_out.err = "none"
        /\ fw_out.val.logits = <<FwB, FwT, vocab_size>>
        /\ fw_out.val.loss = (IF fw_targets.def THEN "scalar" ELSE "None")

\* C5 (amended): forward on token indices of shape (B, T) with T <= blockSize
\* returns logits of shape (B, T, vocabSize) when targets are not supplied and of
\* shape (B*T, vocabSize) when they are; the loss is None exactly when targets
\* are not supplied and a scalar otherwise.
C5_ForwardShapes ==
    (ForwardOver /\ FwT <= block_size) =>
        /\ fw_out.err = "none"
        /\ fw_out.val.logits = (IF fw_targets.def THEN <<FwB * FwT, vocab_size>>
                                ELSE <<FwB, FwT, vocab_size>>)
        /\ fw_out.val.loss = (IF fw_targets.def THEN "scalar" ELSE "None")

\* C5 witness: a call with targets on two windows of two tokens, vocabulary of 3
C5_Witness ==
    /\ fw_pc = "returned"
    /\ fw_targets.def
    /\ FwB = 2 /\ FwT = 2 /\ vocab_size = 3
    /\ fw_out.val.logits = <<4, 3>>
    /\ fw_out.val.loss = "scalar"

-----------------------------------------------------------------------------
(* The training-loop claims, under SpecTrain *)

\* the iterations i <= upto of a run of n steps at which an evaluation is due
RECURSIVE EvalIters(_, _, _)
EvalIters(upto, n, interval) ==
    IF upto < 0 THEN <<>>
    ELSE LET rest == EvalIters(upto - 1, n, interval)
         IN  IF EvalDue(upto, n, interval) THEN Append(rest, upto) ELSE rest

\* the last iteration whose evaluation branch is over
BranchesOver == IF tr_pc = "done" THEN max_iters - 1 ELSE iter

\* C7: in a run of maxIters steps, estimateLoss is invoked and one Loss Record is
\* appended at exactly the iterations i with i % evalInterval = 0 or
\* i = maxIters - 1, once each, in increasing order: whenever the evaluation
\* branch of an iteration is over, the log holds the records of exactly the due
\* iterations so far, and estimateLoss was invoked once for each.
C7_LossRecords ==
    tr_pc \notin {"idle", "OneCycleLR", "ValueError", "for", "if"} =>
        /\ loss_log = EvalIters(BranchesOver, max_iters, eval_interval)
        /\ est_calls = Len(loss_log)

\* C8: every invocation of estimateLoss by the loop that is over has put the model
\* in evaluation mode and has put it back in training mode, and the model is in
\* training mode whenever the loop is outside estimateLoss, so at every optimizer
\* step and training forward pass.
C8_EvalThenTrain ==
    tr_pc \notin {"idle", "estimate_loss"} =>
        /\ est_evals = est_calls
        /\ est_trains = est_calls
        /\ training

\* estimate_loss called with both arguments (SpecEstimate): its forward passes run
\* in evaluation mode, and when it returns the model is in training mode
EstimateBodyModes ==
    /\ est_fw_modes \subseteq {FALSE}
    /\ tr_pc = "estimated" => (training /\ est_evals = 1 /\ est_trains = 1)

\* the step body entered at an iteration with no evaluation due (SpecStep): a step
\* that is over has executed the six statements once each in the order of the
\* source, and the scheduler has been stepped once per iteration and never past
\* its total_steps
StepBodyOrder ==
    /\ (tr_pc = "for" /\ step_ops # <<>>) => step_ops = StepOrder
    /\ tr_pc \in {"for", "if", "step", "done"} => sched_steps = iter
    /\ sched_steps <= sched_total

\* C12: once the scheduler is constructed its total number of steps is maxIters;
\* every step that is over has sampled a batch, computed the forward loss,
\* zeroed the gradients, backpropagated, stepped the optimizer and advanced the
\* schedule, in this order and once each; the schedule has been advanced once
\* per finished iteration; and the cell ends only with the loop over, the
\* schedule advanced through all of its steps.
C12_StepsAndSchedule ==
    /\ tr_pc \notin {"idle", "OneCycleLR", "ValueError"} => sched_total = max_iters
    /\ (tr_pc = "for" /\ iter > 0) => step_ops = StepOrder
    /\ tr_pc \in {"for", "if", "step", "done"} => sched_steps = iter
    /\ tr_pc \in {"done", "TypeError", "RuntimeError"} =>
          (tr_pc = "done" /\ sched_steps = sched_total)

-----------------------------------------------------------------------------
(* The construction claim, under SpecBlock *)

\* C10: constructing a Block whose embeddingSize is not divisible by numHeads
\* fails at construction with ConfigurationError, and no block exists to run a
\* forward pass on; constructing one with a divisible pair succeeds, and so does
\* constructing the LanguageModel of the divisible hyperparameters (64, 16).
C10_ConfigurationError ==
    /\ blk_pc \notin {"idle", "new"} =>
          IF blk_n_embd % blk_n_head # 0
          THEN blk_pc = "ConfigurationError" /\ ~blk.def
          ELSE blk.def
    /\ (lm_pc \notin {"idle", "new"} /\ n_embd % n_head = 0) => lm_pc = "constructed"

-----------------------------------------------------------------------------
(* The sampler's failure claim, under SpecBatch *)

\* C11: a call of the sampler on a sequence with len <= blockSize (len = blockSize
\* included) ends with InsufficientData and no batch, and a call on a sequence
\* with len > blockSize (len = blockSize + 1 included) returns a batch.
C11_InsufficientData ==
    gb_pc # "idle" =>
        IF Len(SplitData(gb_split).val) <= block_size
        THEN gb_pc = "InsufficientData" /\ gb_x = <<>> /\ gb_y = <<>>
        ELSE gb_pc = "returned"

====
